---- MODULE Spec2Model ----
(***************************************************************************)
(* A model of src/bot.py: the per-user session store, the command and chat *)
(* handlers that read and mutate it, and the reply pipeline               *)
(* (convert_to_html, the splitting of long texts, the three send tiers).   *)
(*                                                                         *)
(* Texts that the code inspects character by character (model replies,     *)
(* the argument of /temperature) are sequences of one-character strings.   *)
(* Texts that the code only stores, compares or forwards are strings.      *)
(*                                                                         *)
(* Spec is the bot from its start: updates of any user are dispatched to   *)
(* the handlers registered in main.  SpecCap is the bot with a history at  *)
(* max_history behind it.  SpecBusy is the bot with a reply under way.     *)
(* SpecSend is one call of send_long_message on texts around the length   *)
(* limit, SpecMarkup one call on short texts made of markup characters.    *)
(***************************************************************************)
EXTENDS Integers, Sequences, FiniteSets, TLC

VARIABLES
    user_sessions,  \* the dict user_sessions: user id -> UserSession
    handlers,       \* the handler coroutines in flight, each suspended in an await
    n_updates,      \* number of updates dispatched so far
    last,           \* the step taken last: what was dispatched or which call completed
    turns_log       \* per user: every turn appended since the last clear_history

vars == <<user_sessions, handlers, n_updates, last, turns_log>>

-----------------------------------------------------------------------------
(* Bounds of the model.                                                    *)

MaxUpdates == 2
MaxInFlight == 1
Users == {1, 2}

-----------------------------------------------------------------------------
(* Characters and character classes (Python's re and str).                 *)

NL == "\n"
FF == "\f"
\* two characters that a TLA+ string cannot hold, each named by its code point:
\* the bullet that the bullet rule emits, and the backtick
BULLET == "U+2022"
BACKTICK == "U+0060"

\* \s of re
Whitespace == {" ", "\n", "\t", "\r", "\f"}

\* \w of re, over the letters and digits the model uses
WordChars == {"a", "b", "c", "d", "e", "h", "i", "k", "o", "p", "r", "x", "y",
              "0", "1", "2", "3", "4", "5", "6", "7", "8", "9", "_"}

\* characters for which str.isprintable() is false
NonPrintable == {"\n", "\t", "\r", "\f"}

At(t, i) == IF i >= 1 /\ i <= Len(t) THEN t[i] ELSE ""

\* the literal lit occurs in t at index i
IsAt(t, i, lit) ==
    /\ i >= 1
    /\ i + Len(lit) - 1 <= Len(t)
    /\ \A k \in 1..Len(lit) : t[i + k - 1] = lit[k]

\* the least j in lo..hi with P[j], or 0, for P a function to BOOLEAN
FirstSuch(lo, hi, P) ==
    IF \E j \in lo..hi : P[j]
    THEN CHOOSE j \in lo..hi : P[j] /\ \A k \in lo..(j - 1) : ~P[k]
    ELSE 0

\* the last index of the longest run of characters not in stops that starts
\* at i (i - 1 when the run is empty)
RunUntil(t, i, stops) ==
    LET stop == FirstSuch(i, Len(t), [j \in i..Len(t) |-> t[j] \in stops])
    IN  IF stop = 0 THEN Len(t) ELSE stop - 1

\* the last index of the longest run of characters of the class that starts
\* at i (i - 1 when the run is empty): a greedy class*
RunEnd(t, i, class) ==
    LET stop == FirstSuch(i, Len(t), [j \in i..Len(t) |-> t[j] \notin class])
    IN  IF stop = 0 THEN Len(t) ELSE stop - 1

LineStart(t, i) == i = 1 \/ At(t, i - 1) = NL

Min2(a, b) == IF a <= b THEN a ELSE b

-----------------------------------------------------------------------------
(* The regular expressions of convert_to_html and send_long_message.       *)
(* For each pattern, an operator gives the index of the last character of *)
(* the match that starts at index i of t, as Python's backtracking matcher *)
(* finds it, or 0 when no match starts at i, and an operator gives the     *)
(* replacement.  No pattern matches the empty string.                      *)

TICKS3 == <<BACKTICK, BACKTICK, BACKTICK>>
STARS2 == <<"*", "*">>
UNDERS2 == <<"_", "_">>

\* where the group ([\s\S]*?) of the fence pattern starts: after the three
\* backticks, a greedy [\w]* and an optional newline
FenceBodyStart(t, i) ==
    LET w == RunEnd(t, i + 3, WordChars)
    IN  IF At(t, w + 1) = NL THEN w + 2 ELSE w + 1

\* the index of the closing backticks of the fence that opens at i, or 0
FenceClose(t, i) ==
    FirstSuch(FenceBodyStart(t, i), Len(t),
              [j \in 1..Len(t) |-> IsAt(t, j, TICKS3)])

\* the index of the next character c after i, or 0
NextChar(t, i, c) == FirstSuch(i + 1, Len(t), [j \in 1..Len(t) |-> t[j] = c])

\* the index of the closing pair of a bold span whose opening pair is at i,
\* or 0: (.*?) is lazy and does not cross a newline
BoldClose(t, i, pair) ==
    LET j == FirstSuch(i + 2, Len(t), [k \in 1..Len(t) |-> IsAt(t, k, pair)])
    IN  IF j # 0 /\ \A k \in (i + 2)..(j - 1) : t[k] # NL THEN j ELSE 0

\* the end of ^#{1,6}\s+(.*?)$ from the line start i: hashes, whitespace
\* (greedy, newlines included), then the rest of the line reached
HeaderHashEnd(t, i) == RunEnd(t, i, {"#"})
HeaderSpaceEnd(t, i) == RunEnd(t, HeaderHashEnd(t, i) + 1, Whitespace)
HeaderEnd(t, i) == RunUntil(t, HeaderSpaceEnd(t, i) + 1, {NL})

Wrap(open, body, close) == open \o body \o close

B_OPEN == <<"<", "b", ">">>
B_CLOSE == <<"<", "/", "b", ">">>
I_OPEN == <<"<", "i", ">">>
I_CLOSE == <<"<", "/", "i", ">">>
CODE_OPEN == <<"<", "c", "o", "d", "e", ">">>
CODE_CLOSE == <<"<", "/", "c", "o", "d", "e", ">">>
PRE_OPEN == <<"<", "p", "r", "e", ">">>
PRE_CLOSE == <<"<", "/", "p", "r", "e", ">">>

\* the fence pattern of line 55  ->  <pre>\1</pre>
FenceEnd(t, i) ==
    IF IsAt(t, i, TICKS3) /\ FenceClose(t, i) # 0 THEN FenceClose(t, i) + 2 ELSE 0
FenceRepl(t, i, e) ==
    Wrap(PRE_OPEN, SubSeq(t, FenceBodyStart(t, i), e - 3), PRE_CLOSE)

\* the inline code pattern of line 58  ->  <code>\1</code>
InlineCodeEnd(t, i) ==
    IF t[i] = BACKTICK /\ NextChar(t, i, BACKTICK) >= i + 2
    THEN NextChar(t, i, BACKTICK) ELSE 0
InlineCodeRepl(t, i, e) == Wrap(CODE_OPEN, SubSeq(t, i + 1, e - 1), CODE_CLOSE)

\* ^#{1,6}\s+(.*?)$ with re.MULTILINE  ->  <b>\1</b>
HeaderMatchEnd(t, i) ==
    IF /\ LineStart(t, i)
       /\ t[i] = "#"
       /\ HeaderHashEnd(t, i) - i + 1 <= 6
       /\ HeaderSpaceEnd(t, i) > HeaderHashEnd(t, i)
    THEN HeaderEnd(t, i) ELSE 0
HeaderRepl(t, i, e) == Wrap(B_OPEN, SubSeq(t, HeaderSpaceEnd(t, i) + 1, e), B_CLOSE)

\* \*\*(.*?)\*\*  ->  <b>\1</b>
BoldStarEnd(t, i) ==
    IF IsAt(t, i, STARS2) /\ BoldClose(t, i, STARS2) # 0
    THEN BoldClose(t, i, STARS2) + 1 ELSE 0

\* __(.*?)__  ->  <b>\1</b>
BoldUnderEnd(t, i) ==
    IF IsAt(t, i, UNDERS2) /\ BoldClose(t, i, UNDERS2) # 0
    THEN BoldClose(t, i, UNDERS2) + 1 ELSE 0
BoldRepl(t, i, e) == Wrap(B_OPEN, SubSeq(t, i + 2, e - 2), B_CLOSE)

\* the end of an italic span with marker c that opens at i: the marker is
\* not doubled on either side, and ([^c]+?) holds no marker
ItalicClose(t, i, c) ==
    LET j == NextChar(t, i, c)
    IN  IF t[i] = c /\ At(t, i - 1) # c /\ j >= i + 2 /\ At(t, j + 1) # c
        THEN j ELSE 0

\* (?<!\*)\*([^\*]+?)\*(?!\*)  ->  <i>\1</i>
ItalicStarEnd(t, i) == ItalicClose(t, i, "*")

\* (?<!_)_([^_]+?)_(?!_)  ->  <i>\1</i>
ItalicUnderEnd(t, i) == ItalicClose(t, i, "_")
ItalicRepl(t, i, e) == Wrap(I_OPEN, SubSeq(t, i + 1, e - 1), I_CLOSE)

\* ^[\*\-]\s+ with re.MULTILINE  ->  bullet and space
BulletEnd(t, i) ==
    IF LineStart(t, i) /\ t[i] \in {"*", "-"} /\ RunEnd(t, i + 1, Whitespace) >= i + 1
    THEN RunEnd(t, i + 1, Whitespace) ELSE 0

\* <[^>]+>
TagEnd(t, i) ==
    IF t[i] = "<" /\ NextChar(t, i, ">") >= i + 2 THEN NextChar(t, i, ">") ELSE 0

\* the class of markdown characters of line 148
MarkdownCharEnd(t, i) == IF t[i] \in {"*", "_", BACKTICK} THEN i ELSE 0

\* a character that ultra_clean drops: neither printable nor one of \n \r \t
Unprintable(c) == c \in NonPrintable \ {"\n", "\r", "\t"}

\* re.sub and str.replace on t from index pos on: the non-overlapping
\* matches left to right, each replaced.  ends[i] is where the match that
\* starts at i ends (0 for none), repls[i] is what replaces it
RECURSIVE SubFrom(_, _, _, _)
SubFrom(ends, repls, t, pos) ==
    LET i == FirstSuch(pos, Len(t), [k \in 1..Len(t) |-> ends[k] # 0])
    IN  IF i = 0
        THEN SubSeq(t, pos, Len(t))
        ELSE SubSeq(t, pos, i - 1) \o repls[i] \o SubFrom(ends, repls, t, ends[i] + 1)

re_sub(ends, repls, t) == SubFrom(ends, repls, t, 1)

\* str.replace of one character
replace(t, old, new) ==
    re_sub([i \in 1..Len(t) |-> IF t[i] = old THEN i ELSE 0],
           [i \in 1..Len(t) |-> new], t)

AMP == <<"&", "a", "m", "p", ";">>
LT == <<"&", "l", "t", ";">>
GT == <<"&", "g", "t", ";">>

\* one part of re.split(TAG, text) as the loop of
\* escape_outside_tags treats it
EscapePart(part) ==
    IF part # <<>> /\ part[1] = "<" /\ part[Len(part)] = ">"
    THEN part
    ELSE replace(replace(replace(part, "&", AMP), "<", LT), ">", GT)

RECURSIVE EscapeFrom(_, _)
EscapeFrom(t, pos) ==
    LET i == FirstSuch(pos, Len(t), [k \in 1..Len(t) |-> TagEnd(t, k) # 0])
        e == TagEnd(t, i)
    IN  IF i = 0
        THEN EscapePart(SubSeq(t, pos, Len(t)))
        ELSE EscapePart(SubSeq(t, pos, i - 1))
             \o EscapePart(SubSeq(t, i, e))
             \o EscapeFrom(t, e + 1)

escape_outside_tags(text) == EscapeFrom(text, 1)

\* re.sub of each pattern on t
SubFence(t) ==
    re_sub([i \in 1..Len(t) |-> FenceEnd(t, i)],
           [i \in 1..Len(t) |-> FenceRepl(t, i, FenceEnd(t, i))], t)
SubInlineCode(t) ==
    re_sub([i \in 1..Len(t) |-> InlineCodeEnd(t, i)],
           [i \in 1..Len(t) |-> InlineCodeRepl(t, i, InlineCodeEnd(t, i))], t)
SubHeader(t) ==
    re_sub([i \in 1..Len(t) |-> HeaderMatchEnd(t, i)],
           [i \in 1..Len(t) |-> HeaderRepl(t, i, HeaderMatchEnd(t, i))], t)
SubBoldStar(t) ==
    re_sub([i \in 1..Len(t) |-> BoldStarEnd(t, i)],
           [i \in 1..Len(t) |-> BoldRepl(t, i, BoldStarEnd(t, i))], t)
SubBoldUnder(t) ==
    re_sub([i \in 1..Len(t) |-> BoldUnderEnd(t, i)],
           [i \in 1..Len(t) |-> BoldRepl(t, i, BoldUnderEnd(t, i))], t)
SubItalicStar(t) ==
    re_sub([i \in 1..Len(t) |-> ItalicStarEnd(t, i)],
           [i \in 1..Len(t) |-> ItalicRepl(t, i, ItalicStarEnd(t, i))], t)
SubItalicUnder(t) ==
    re_sub([i \in 1..Len(t) |-> ItalicUnderEnd(t, i)],
           [i \in 1..Len(t) |-> ItalicRepl(t, i, ItalicUnderEnd(t, i))], t)
SubBullet(t) ==
    re_sub([i \in 1..Len(t) |-> BulletEnd(t, i)],
           [i \in 1..Len(t) |-> <<BULLET, " ">>], t)
SubTag(t) ==
    re_sub([i \in 1..Len(t) |-> TagEnd(t, i)], [i \in 1..Len(t) |-> <<>>], t)
SubMarkdownChar(t) ==
    re_sub([i \in 1..Len(t) |-> MarkdownCharEnd(t, i)], [i \in 1..Len(t) |-> <<>>], t)

convert_to_html(text) ==
    escape_outside_tags(
        SubBullet(SubItalicUnder(SubItalicStar(SubBoldUnder(SubBoldStar(
            SubHeader(SubInlineCode(SubFence(text)))))))))

-----------------------------------------------------------------------------
(* send_long_message: conversion, splitting, the text of each send tier.   *)

MAX_LENGTH == 4096

\* lines 105-113: the text that is split and the parse mode of tier (a)
PreparedText(text, use_html) == IF use_html THEN convert_to_html(text) ELSE text
ParseMode(use_html) == IF use_html THEN "HTML" ELSE "None"

\* text.split('\n') from index pos on
RECURSIVE SplitFrom(_, _)
SplitFrom(t, pos) ==
    LET j == FirstSuch(pos, Len(t), [k \in 1..Len(t) |-> t[k] = NL])
    IN  IF j = 0
        THEN <<SubSeq(t, pos, Len(t))>>
        ELSE <<SubSeq(t, pos, j - 1)>> \o SplitFrom(t, j + 1)

split_lines(t) == SplitFrom(t, 1)

\* line 123: the line still goes into the current chunk
Fits(current_chunk, line) == Len(current_chunk) + Len(line) + 1 <= MAX_LENGTH

\* a faulty variant of Flush: the chunk being closed replaces the chunks
\* appended before it
FlushOverwrites(chunks, current_chunk) ==
    IF current_chunk # <<>> THEN <<current_chunk>> ELSE chunks

\* lines 126-127 and 129-130: a non-empty current chunk is appended
Flush(chunks, current_chunk) ==
    IF current_chunk # <<>> THEN Append(chunks, current_chunk) ELSE chunks

\* lines 122-130: the loop over the lines from line k on
RECURSIVE ChunkLoop(_, _, _, _)
ChunkLoop(lines, k, chunks, current_chunk) ==
    IF k > Len(lines)
    THEN Flush(chunks, current_chunk)
    ELSE IF Fits(current_chunk, lines[k])
         THEN ChunkLoop(lines, k + 1, chunks, current_chunk \o lines[k] \o <<NL>>)
         ELSE ChunkLoop(lines, k + 1, Flush(chunks, current_chunk),
                        lines[k] \o <<NL>>)

\* lines 116-130
split_chunks(text) ==
    IF Len(text) <= MAX_LENGTH
    THEN <<text>>
    ELSE ChunkLoop(split_lines(text), 1, <<>>, <<>>)

\* lines 147-148
strip_plain(chunk) == SubMarkdownChar(SubTag(chunk))

\* lines 155-156
ultra_clean(chunk) ==
    LET kept == re_sub([i \in 1..Len(chunk) |-> IF Unprintable(chunk[i]) THEN i ELSE 0],
                       [i \in 1..Len(chunk) |-> <<>>], chunk)
    IN  SubSeq(kept, 1, Min2(MAX_LENGTH, Len(kept)))

\* the text that the attempt of a tier sends for a chunk
TierText(chunk, tier) ==
    CASE tier = "a" -> chunk
      [] tier = "b" -> strip_plain(chunk)
      [] tier = "c" -> ultra_clean(chunk)

-----------------------------------------------------------------------------
(* UserSession and the session store.                                      *)
(* A float f is held as the integer 1000 * f; every number the model reads *)
(* has at most three decimals.                                             *)

max_history == 1000

DEFAULT_SYSTEM_PROMPT == <<"You are a helpful AI assistant.">>
DEFAULT_TEMPERATURE == 700
DEFAULT_MODEL == "gemini-2.5-flash"

\* UserSession.__init__; oid stands for the identity of the new object
UserSession(oid) ==
    [id |-> oid,
     history |-> <<>>,
     system_prompt |-> DEFAULT_SYSTEM_PROMPT,
     temperature |-> DEFAULT_TEMPERATURE,
     model_name |-> DEFAULT_MODEL,
     max_history |-> max_history]

Turn(role, content) == [role |-> role, parts |-> <<content>>]

\* a faulty variant of Truncate: history[:max_history], which keeps the
\* oldest turns
TruncateKeepsOldest(history, limit) == SubSeq(history, 1, limit)

\* history[-max_history:] of a history longer than max_history
Truncate(history, limit) ==
    SubSeq(history, Len(history) - limit + 1, Len(history))

\* a faulty variant of add_message: history.insert(0, ...) for history.append
add_message_in_front(session, role, content) ==
    [session EXCEPT !.history = <<Turn(role, content)>> \o @]

\* UserSession.add_message
add_message(session, role, content) ==
    LET appended == Append(session.history, Turn(role, content))
    IN  [session EXCEPT !.history =
            IF Len(appended) > session.max_history
            THEN Truncate(appended, session.max_history)
            ELSE appended]

\* a faulty variant of clear_history: a fresh UserSession takes the place of
\* the session, so the settings go back to their defaults
clear_history_resets_settings(session) ==
    [session EXCEPT !.history = <<>>,
                    !.system_prompt = DEFAULT_SYSTEM_PROMPT,
                    !.temperature = DEFAULT_TEMPERATURE,
                    !.model_name = DEFAULT_MODEL]

\* UserSession.clear_history
clear_history(session) == [session EXCEPT !.history = <<>>]

\* a faulty variant of get_session: without the membership test, every call
\* stores a new UserSession
get_session_always_creates(store, user_id) ==
    (user_id :> UserSession(Cardinality(DOMAIN store) + 1)) @@ store

\* get_session: the store after the call (the session returned is store[user_id])
get_session(store, user_id) ==
    IF user_id \in DOMAIN store
    THEN store
    ELSE (user_id :> UserSession(Cardinality(DOMAIN store) + 1)) @@ store

\* a faulty variant of WithSession: one session object shared by all users
WithSharedSession(store, user_id, session) ==
    [v \in DOMAIN store \cup {user_id} |-> session]

\* the store with the (mutated) session object of user_id
WithSession(store, user_id, session) == (user_id :> session) @@ store

-----------------------------------------------------------------------------
(* Arguments of the commands.                                              *)

DigitChars == <<"0", "1", "2", "3", "4", "5", "6", "7", "8", "9">>
IsDigit(c) == \E d \in 1..10 : DigitChars[d] = c
DigitValue(c) == (CHOOSE d \in 1..10 : DigitChars[d] = c) - 1

\* the value of a sequence of digits
RECURSIVE Decimal(_)
Decimal(ds) ==
    IF ds = <<>> THEN 0
    ELSE 10 * Decimal(SubSeq(ds, 1, Len(ds) - 1)) + DigitValue(ds[Len(ds)])

\* a fraction of up to three digits, in thousandths
Thousandths(ds) ==
    Decimal(ds \o [i \in 1..(3 - Len(ds)) |-> "0"])

\* float(arg) for arg a sign, digits and at most one point, or nan, or inf;
\* "error" stands for ValueError
ParseFloat(arg) ==
    LET signed == arg # <<>> /\ arg[1] \in {"+", "-"}
        body == IF signed THEN Tail(arg) ELSE arg
        sign == IF signed /\ arg[1] = "-" THEN -1 ELSE 1
        dot == FirstSuch(1, Len(body), [k \in 1..Len(body) |-> body[k] = "."])
        whole == IF dot = 0 THEN body ELSE SubSeq(body, 1, dot - 1)
        frac == IF dot = 0 THEN <<>> ELSE SubSeq(body, dot + 1, Len(body))
    IN  IF body = <<"n", "a", "n">> THEN [kind |-> "nan", value |-> 0]
        ELSE IF body = <<"i", "n", "f">> THEN [kind |-> "inf", value |-> sign]
        ELSE IF /\ Len(whole) + Len(frac) > 0
                /\ Len(frac) <= 3
                /\ \A k \in 1..Len(whole) : IsDigit(whole[k])
                /\ \A k \in 1..Len(frac) : IsDigit(frac[k])
             THEN [kind |-> "number",
                   value |-> sign * (1000 * Decimal(whole) + Thousandths(frac))]
             ELSE [kind |-> "error", value |-> 0]

\* a faulty variant of InRange: every number is accepted
InRangeAnyNumber(parsed) == parsed.kind = "number"

\* a faulty variant of InRange: 0.0 <= temp < 2.0
InRangeBelowTwo(parsed) ==
    parsed.kind = "number" /\ 0 <= parsed.value /\ parsed.value < 2000

\* 0.0 <= temp <= 2.0 (false for nan and for the infinities)
InRange(parsed) ==
    parsed.kind = "number" /\ 0 <= parsed.value /\ parsed.value <= 2000

\* ' '.join(context.args): the words with one space between two of them
RECURSIVE Join(_)
Join(args) ==
    IF Len(args) <= 1 THEN args
    ELSE <<args[1], " ">> \o Join(Tail(args))

\* str.lower() on the arguments the model gives to /persona and /model
Lower(word) ==
    CASE word = "Coding" -> "coding"
      [] word = "PRO" -> "pro"
      [] OTHER -> word

\* the dict personas of persona_command
personas ==
    [helpful |-> <<"You are a helpful, friendly AI assistant.">>,
     coding |-> <<"You are an expert programmer who writes clean, efficient code and explains technical concepts clearly.">>,
     creative |-> <<"You are a creative writer who tells engaging stories and creates compelling content.">>,
     roast |-> <<"You are a sarcastic AI who roasts people in a funny way (but keeps it friendly).">>,
     teacher |-> <<"You are a patient teacher who explains things step-by-step in simple terms.">>]

\* the dict models of model_command
models == [pro |-> "gemini-2.5-pro", flash |-> "gemini-2.5-flash"]

-----------------------------------------------------------------------------
(* Inputs of the model.                                                    *)

\* texts of chat messages
Messages == {"hi", "more"}

\* the text the model answers with
Responses == {<<"*", "b", "*">>}

\* where the model call of chat can raise: GenerativeModel(...) (line 405),
\* send_message (line 414), response.text (line 415)
ModelErrors == {"construct_error", "send_error", "text_error"}

SystemArgs == {<<>>, <<"Be", "brief">>}
TemperatureArgs ==
    {<<>>,
     << <<"0", ".", "0">> >>,
     << <<"2", ".", "0">> >>,
     << <<"3", ".", "5">> >>,
     << <<"-", "0", ".", "1">> >>,
     << <<"n", "a", "n">> >>,
     << <<"a", "b", "c">> >>}
PersonaArgs == {<<>>, <<"Coding">>, <<"pirate">>}
ModelArgs == {<<>>, <<"PRO">>, <<"gpt">>}
ImageArgs == {<<>>, <<"a", "cat">>}

\* what generate_content and the scan of its parts come to (lines 369-381)
ImageOutcomes == {"image", "no_image", "error"}

-----------------------------------------------------------------------------
(* Handlers.  A handler runs without interruption from one await to the    *)
(* next; a handler record says which platform call the handler awaits.     *)

NoSend == [text |-> <<>>, parse_mode |-> "None", chunks |-> <<>>, k |-> 0,
           tier |-> "none", attempts |-> <<>>]

NoRequest == [model_name |-> "none", temperature |-> 0,
              system_instruction |-> <<>>, history |-> <<>>, message |-> "none",
              outcome |-> "none"]

\* a handler suspended in the platform call `call` with the text `template`
Awaiting(kind, user, pc, call, template, parse_mode) ==
    [kind |-> kind, user |-> user, pc |-> pc, call |-> call,
     template |-> template, parse_mode |-> parse_mode, send |-> NoSend]

\* the first tier attempted for a chunk (lines 137, 145)
FirstTier(parse_mode) == IF parse_mode # "None" THEN "a" ELSE "b"

\* send_long_message up to its first await: chunk 1, first tier
SendState(text, use_html) ==
    LET prepared == PreparedText(text, use_html)
    IN  [text |-> prepared,
         parse_mode |-> ParseMode(use_html),
         chunks |-> split_chunks(prepared),
         k |-> 1,
         tier |-> FirstTier(ParseMode(use_html)),
         attempts |-> <<>>]

\* a handler suspended in the reply_text of a send tier (lines 139, 149, 156)
Sending(kind, user, send) ==
    [kind |-> kind, user |-> user, pc |-> "send", call |-> "reply_text",
     template |-> "chunk",
     parse_mode |-> IF send.tier = "a" THEN send.parse_mode ELSE "None",
     send |-> send]

\* the handler coroutine of update number n
Coroutine(n, handler) == [update |-> n] @@ handler

\* User ids are opaque dictionary keys that the code never compares with
\* one another, so the users are interchangeable: the first update is taken
\* to come from the first user.
FirstUser == CHOOSE u \in Users : \A v \in Users : u <= v

\* the handlers in flight of the updates dispatched so far (a handler with
\* update number 0 was in flight from the start)
InFlight == {h \in handlers : h.update > 0}

\* an update reaches its handler, which runs up to its first await
Begin(kind, user, args, store, handler, model_request) ==
    /\ n_updates < MaxUpdates
    /\ n_updates = 0 => user = FirstUser
    /\ Cardinality(InFlight) < MaxInFlight
    /\ n_updates' = n_updates + 1
    /\ last' = [step |-> "dispatch", update |-> n_updates + 1, kind |-> kind,
                user |-> user, args |-> args, before |-> user_sessions,
                reply |-> handler.template, request |-> model_request]
    /\ user_sessions' = store
    /\ handlers' = handlers \cup {Coroutine(n_updates + 1, handler)}

\* start and help_command
Info(u, kind) ==
    /\ Begin(kind, u, <<>>, user_sessions,
             Awaiting(kind, u, "reply", "reply_text", kind, "HTML"), NoRequest)
    /\ UNCHANGED turns_log

\* reset
Reset(u) ==
    LET store == get_session(user_sessions, u)
    IN  /\ Begin("reset", u, <<>>,
                 WithSession(store, u, clear_history(store[u])),
                 Awaiting("reset", u, "reply", "reply_text",
                          "Chat history cleared", "None"), NoRequest)
        /\ turns_log' = [turns_log EXCEPT ![u] = <<>>]

\* system_command without arguments (lines 245-253)
SystemShow(u) ==
    /\ Begin("system", u, <<>>, get_session(user_sessions, u),
             Awaiting("system", u, "reply", "reply_text",
                      "Current system prompt", "HTML"), NoRequest)
    /\ UNCHANGED turns_log

\* a faulty variant of set_system_prompt: session.clear_history() is left out
set_system_prompt_keeps_history(session, new_prompt) ==
    [session EXCEPT !.system_prompt = new_prompt]

\* lines 255-257
set_system_prompt(session, new_prompt) ==
    clear_history([session EXCEPT !.system_prompt = new_prompt])

\* system_command with arguments (lines 255-262)
SystemSet(u, args) ==
    LET store == get_session(user_sessions, u)
    IN  /\ args # <<>>
        /\ Begin("system", u, args,
                 WithSession(store, u, set_system_prompt(store[u], Join(args))),
                 Awaiting("system", u, "reply", "reply_text",
                          "System prompt updated", "HTML"), NoRequest)
        /\ turns_log' = [turns_log EXCEPT ![u] = <<>>]

\* lines 275-283: the session after /temperature with an argument
set_temperature(session, arg) ==
    IF ParseFloat(arg).kind # "error" /\ InRange(ParseFloat(arg))
    THEN [session EXCEPT !.temperature = ParseFloat(arg).value]
    ELSE session

\* lines 279-283: the reply to /temperature with an argument
TemperatureReply(arg) ==
    IF ParseFloat(arg).kind = "error" THEN "Invalid number"
    ELSE IF InRange(ParseFloat(arg)) THEN "Temperature set to"
    ELSE "Temperature must be between 0.0 and 2.0"

\* temperature_command
Temperature(u, args) ==
    LET store == get_session(user_sessions, u)
    IN  /\ IF args = <<>>
           THEN Begin("temperature", u, args, store,
                      Awaiting("temperature", u, "reply", "reply_text",
                               "Current temperature", "HTML"), NoRequest)
           ELSE Begin("temperature", u, args,
                      WithSession(store, u, set_temperature(store[u], args[1])),
                      Awaiting("temperature", u, "reply", "reply_text",
                               TemperatureReply(args[1]),
                               IF TemperatureReply(args[1]) = "Temperature set to"
                               THEN "HTML" ELSE "None"), NoRequest)
        /\ UNCHANGED turns_log

\* tokens_command
Tokens(u) ==
    /\ Begin("tokens", u, <<>>, get_session(user_sessions, u),
             Awaiting("tokens", u, "reply", "reply_text", "Context Usage", "None"),
             NoRequest)
    /\ UNCHANGED turns_log

\* a faulty variant of set_persona: an unknown name selects the helpful
\* persona (personas.get(name, default)) instead of being rejected
set_persona_with_default(session, arg) ==
    clear_history([session EXCEPT !.system_prompt =
        IF Lower(arg) \in DOMAIN personas
        THEN personas[Lower(arg)] ELSE personas.helpful])

\* lines 316-325: the session after /persona with an argument
set_persona(session, arg) ==
    IF Lower(arg) \in DOMAIN personas
    THEN clear_history([session EXCEPT !.system_prompt = personas[Lower(arg)]])
    ELSE session

\* persona_command
Persona(u, args) ==
    LET store == get_session(user_sessions, u)
    IN  IF args = <<>>
        THEN /\ Begin("persona", u, args, store,
                      Awaiting("persona", u, "reply", "reply_text",
                               "Available Personas", "HTML"), NoRequest)
             /\ UNCHANGED turns_log
        ELSE /\ Begin("persona", u, args,
                      WithSession(store, u, set_persona(store[u], args[1])),
                      IF Lower(args[1]) \in DOMAIN personas
                      THEN Awaiting("persona", u, "reply", "reply_text",
                                    "Persona set to", "HTML")
                      ELSE Awaiting("persona", u, "reply", "reply_text",
                                    "Unknown persona", "None"), NoRequest)
             /\ turns_log' = IF Lower(args[1]) \in DOMAIN personas
                             THEN [turns_log EXCEPT ![u] = <<>>]
                             ELSE turns_log

\* lines 343-348: the session after /model with an argument
set_model(session, arg) ==
    IF Lower(arg) \in DOMAIN models
    THEN [session EXCEPT !.model_name = models[Lower(arg)]]
    ELSE session

\* model_command
Model(u, args) ==
    LET store == get_session(user_sessions, u)
    IN  /\ IF args = <<>>
           THEN Begin("model", u, args, store,
                      Awaiting("model", u, "reply", "reply_text",
                               "Current model", "HTML"), NoRequest)
           ELSE Begin("model", u, args,
                      WithSession(store, u, set_model(store[u], args[1])),
                      IF Lower(args[1]) \in DOMAIN models
                      THEN Awaiting("model", u, "reply", "reply_text",
                                    "Model switched to", "HTML")
                      ELSE Awaiting("model", u, "reply", "reply_text",
                                    "Unknown model", "None"), NoRequest)
        /\ UNCHANGED turns_log

\* image_command up to its first await
Image(u, args) ==
    /\ IF args = <<>>
       THEN Begin("image", u, args, user_sessions,
                  Awaiting("image", u, "reply", "reply_text", "Usage: /image", "HTML"),
                  NoRequest)
       ELSE Begin("image", u, args, user_sessions,
                  Awaiting("image", u, "status", "reply_text",
                           "Generating your image", "None"), NoRequest)
    /\ UNCHANGED turns_log

\* a faulty variant of AllButLast: history for history[:-1]
WholeHistory(history) == history

\* history[:-1]
AllButLast(history) == SubSeq(history, 1, Len(history) - 1)

\* a faulty variant of ModelRequest: system_instruction is not taken from
\* the session
ModelRequestDefaultPrompt(session, user_message, outcome) ==
    [model_name |-> session.model_name,
     temperature |-> session.temperature,
     system_instruction |-> DEFAULT_SYSTEM_PROMPT,
     history |-> IF outcome = "construct_error" THEN <<>>
                 ELSE AllButLast(session.history),
     message |-> user_message,
     outcome |-> outcome]

\* the request that chat builds from the session (lines 405-414); the
\* history is passed only once the model object exists
ModelRequest(session, user_message, outcome) ==
    [model_name |-> session.model_name,
     temperature |-> session.temperature,
     system_instruction |-> session.system_prompt,
     history |-> IF outcome = "construct_error" THEN <<>>
                 ELSE AllButLast(session.history),
     message |-> user_message,
     outcome |-> outcome]

\* a faulty variant of ChatFails: the model turn is recorded before the call
\* that raises
ChatFailsRecordsModelTurn(u, user_message, error) ==
    LET store == get_session(user_sessions, u)
        recorded == add_message(store[u], "user", user_message)
        answered == add_message(recorded, "model", <<>>)
    IN  /\ Begin("chat", u, <<user_message>>, WithSession(store, u, answered),
                 Awaiting("chat", u, "error_reply", "reply_text",
                          "Oops! Something went wrong", "HTML"),
                 ModelRequest(recorded, user_message, error))
        /\ turns_log' = [turns_log EXCEPT
               ![u] = @ \o <<Turn("user", user_message), Turn("model", <<>>)>>]

\* chat up to its first await, the model call failing at `error`
ChatFails(u, user_message, error) ==
    LET store == get_session(user_sessions, u)
        recorded == add_message(store[u], "user", user_message)
    IN  /\ Begin("chat", u, <<user_message>>, WithSession(store, u, recorded),
                 Awaiting("chat", u, "error_reply", "reply_text",
                          "Oops! Something went wrong", "HTML"),
                 ModelRequest(recorded, user_message, error))
        /\ turns_log' = [turns_log EXCEPT
               ![u] = Append(@, Turn("user", user_message))]

\* chat up to its first await, the model answering ai_response
ChatAnswers(u, user_message, ai_response) ==
    LET store == get_session(user_sessions, u)
        recorded == add_message(store[u], "user", user_message)
        answered == add_message(recorded, "model", ai_response)
    IN  /\ Begin("chat", u, <<user_message>>, WithSession(store, u, answered),
                 Sending("chat", u, SendState(ai_response, TRUE)),
                 ModelRequest(recorded, user_message, "answered"))
        /\ turns_log' = [turns_log EXCEPT
               ![u] = @ \o <<Turn("user", user_message), Turn("model", ai_response)>>]

-----------------------------------------------------------------------------
(* The awaited platform calls complete, with success or with an exception. *)

\* a platform call of handler hd completes; the handler goes on to the
\* awaits in `next` (none when it ends: exit says how)
Completed(hd, body, ok, exit, next, attempts) ==
    /\ last' = [step |-> "resume", update |-> hd.update, kind |-> hd.kind,
                user |-> hd.user, before |-> user_sessions,
                call |-> hd.call, template |-> hd.template,
                body |-> body, parse_mode |-> hd.parse_mode,
                send_mode |-> hd.send.parse_mode, tier |-> hd.send.tier,
                n_chunks |-> Len(hd.send.chunks),
                ok |-> ok, exit |-> exit, attempts |-> attempts]
    /\ handlers' = (handlers \ {hd}) \cup {Coroutine(hd.update, n) : n \in next}
    /\ UNCHANGED <<user_sessions, n_updates, turns_log>>

Exit(ok) == IF ok THEN "returned" ELSE "raised"

\* the last reply of a command handler (no try around it)
Replied(hd, ok) ==
    /\ hd.pc = "reply"
    /\ Completed(hd, <<>>, ok, Exit(ok), {}, <<>>)

\* the reply in the except clause of chat (lines 424-427)
ErrorReplied(hd, ok) ==
    /\ hd.pc = "error_reply"
    /\ Completed(hd, <<>>, ok, Exit(ok), {}, <<>>)

\* the tier tried after a failed attempt of tier `tier` (lines 145-156)
NextTier(tier) == IF tier = "a" THEN "b" ELSE "c"

\* a faulty variant of ChunkDone: sent is never set, so every tier is tried
ChunkDoneAfterLastTier(tier, ok) == tier = "c"

\* a faulty variant of ChunkDone: a chunk is done with only once it is sent
ChunkDoneWhenSent(tier, ok) == ok

\* the chunk is done with: sent, or tier (c) has been tried
ChunkDone(tier, ok) == ok \/ tier = "c"

\* the send state after the attempt of send.tier for chunk send.k ended
\* with ok (k beyond the chunks: the loop is over)
AfterAttempt(send, ok) ==
    LET logged == [send EXCEPT !.attempts =
                      Append(@, [chunk |-> send.k, tier |-> send.tier, ok |-> ok])]
    IN  IF ChunkDone(send.tier, ok)
        THEN [logged EXCEPT !.k = send.k + 1, !.tier = FirstTier(send.parse_mode)]
        ELSE [logged EXCEPT !.tier = NextTier(send.tier)]

\* the attempt of a send tier completes (lines 133-158)
SendAttempted(hd, ok) ==
    /\ hd.pc = "send"
    /\ LET after == AfterAttempt(hd.send, ok)
           over == after.k > Len(after.chunks)
       IN  Completed(hd, TierText(hd.send.chunks[hd.send.k], hd.send.tier), ok,
                     IF over THEN "returned" ELSE "none",
                     IF over THEN {} ELSE {Sending(hd.kind, hd.user, after)},
                     after.attempts)

ImageFailed(u) ==
    Awaiting("image", u, "edit", "edit_text", "Image generation failed", "HTML")

\* image_command after the status reply (lines 359-381)
ImageStatusReplied(hd, ok, outcome) ==
    /\ hd.pc = "status"
    /\ IF ~ok
       THEN Completed(hd, <<>>, ok, "raised", {}, <<>>)
       ELSE Completed(hd, <<>>, ok, "none",
              {CASE outcome = "image" ->
                      Awaiting("image", hd.user, "photo", "reply_photo",
                               "Generated:", "None")
                 [] outcome = "no_image" ->
                      Awaiting("image", hd.user, "photo", "reply_text",
                               "No image was generated", "None")
                 [] outcome = "error" -> ImageFailed(hd.user)}, <<>>)

\* image_command after reply_photo or the no-image reply (lines 376-388)
ImageDelivered(hd, ok) ==
    /\ hd.pc = "photo"
    /\ Completed(hd, <<>>, ok, "none",
          {IF ok
           THEN Awaiting("image", hd.user, "delete", "delete", "status", "None")
           ELSE ImageFailed(hd.user)}, <<>>)

\* image_command after status_msg.delete() (lines 388-395)
ImageStatusDeleted(hd, ok) ==
    /\ hd.pc = "delete"
    /\ IF ok
       THEN Completed(hd, <<>>, ok, "returned", {}, <<>>)
       ELSE Completed(hd, <<>>, ok, "none", {ImageFailed(hd.user)}, <<>>)

\* image_command after status_msg.edit_text in the except clause (lines 392-395)
ImageErrorEdited(hd, ok) ==
    /\ hd.pc = "edit"
    /\ Completed(hd, <<>>, ok, Exit(ok), {}, <<>>)

-----------------------------------------------------------------------------
(* The bot: updates of any user arrive while handlers are suspended.       *)

Init ==
    /\ user_sessions = <<>>
    /\ handlers = {}
    /\ n_updates = 0
    /\ last = [step |-> "init"]
    /\ turns_log = [u \in Users |-> <<>>]

Dispatch ==
    \E u \in Users :
        \/ \E kind \in {"start", "help"} : Info(u, kind)
        \/ Reset(u)
        \/ SystemShow(u)
        \/ \E args \in SystemArgs : SystemSet(u, args)
        \/ \E args \in TemperatureArgs : Temperature(u, args)
        \/ Tokens(u)
        \/ \E args \in PersonaArgs : Persona(u, args)
        \/ \E args \in ModelArgs : Model(u, args)
        \/ \E args \in ImageArgs : Image(u, args)
        \/ \E m \in Messages, error \in ModelErrors : ChatFails(u, m, error)
        \/ \E m \in Messages, r \in Responses : ChatAnswers(u, m, r)

Resume ==
    \/ \E hd \in handlers, ok \in BOOLEAN : Replied(hd, ok)
    \/ \E hd \in handlers, ok \in BOOLEAN : ErrorReplied(hd, ok)
    \/ \E hd \in handlers, ok \in BOOLEAN : SendAttempted(hd, ok)
    \/ \E hd \in handlers, ok \in BOOLEAN, outcome \in ImageOutcomes :
           ImageStatusReplied(hd, ok, outcome)
    \/ \E hd \in handlers, ok \in BOOLEAN : ImageDelivered(hd, ok)
    \/ \E hd \in handlers, ok \in BOOLEAN : ImageStatusDeleted(hd, ok)
    \/ \E hd \in handlers, ok \in BOOLEAN : ImageErrorEdited(hd, ok)

Next == Dispatch \/ Resume

Spec == Init /\ [][Next]_vars

-----------------------------------------------------------------------------
(* The bot with a long conversation behind it: the first user's history is *)
(* one turn short of max_history, or holds max_history turns, as it does   *)
(* after that many turns of chat with no clear_history in between.         *)

HistoryLengths == {max_history - 1, max_history}

\* the history after n turns of chat: user and model turns alternate, and
\* the last exchange of a history of odd length has failed
LongHistory ==
    [i \in 1..max_history |->
        IF i % 2 = 1
        THEN Turn("user", IF (i \div 2) % 2 = 0 THEN "hi" ELSE "more")
        ELSE Turn("model", <<"*", "b", "*">>)]

InitCap ==
    \E n \in HistoryLengths :
        /\ user_sessions =
               (FirstUser :> [UserSession(1) EXCEPT !.history = SubSeq(LongHistory, 1, n)])
        /\ turns_log = [u \in Users |->
               IF u = FirstUser THEN SubSeq(LongHistory, 1, n) ELSE <<>>]
        /\ handlers = {}
        /\ n_updates = 0
        /\ last = [step |-> "init"]

\* the handlers that append to the history or clear it
DispatchCap ==
    \E u \in Users :
        \/ Reset(u)
        \/ \E m \in Messages, error \in ModelErrors : ChatFails(u, m, error)
        \/ \E m \in Messages, r \in Responses : ChatAnswers(u, m, r)

ResumeCap ==
    \/ \E hd \in handlers, ok \in BOOLEAN : Replied(hd, ok)
    \/ \E hd \in handlers, ok \in BOOLEAN : ErrorReplied(hd, ok)
    \/ \E hd \in handlers, ok \in BOOLEAN : SendAttempted(hd, ok)

NextCap == DispatchCap \/ ResumeCap

SpecCap == InitCap /\ [][NextCap]_vars

-----------------------------------------------------------------------------------------------------------------------------------------------------
(* The bot with a reply under way: the first user's first message has been *)
(* answered by the model and chat is suspended in send_long_message,       *)
(* delivering the answer, while further updates of that user arrive.       *)

FirstMessage == "hi"
FirstResponse == <<"*", "b", "*">>

\* the session of a user whose first message has been answered
FirstExchange(oid) ==
    add_message(add_message(UserSession(oid), "user", FirstMessage),
                "model", FirstResponse)

InitBusy ==
    /\ user_sessions = (FirstUser :> FirstExchange(1))
    /\ turns_log = [u \in Users |->
           IF u = FirstUser THEN FirstExchange(1).history ELSE <<>>]
    /\ handlers =
           {Coroutine(0, Sending("chat", FirstUser, SendState(FirstResponse, TRUE)))}
    /\ n_updates = 0
    /\ last = [step |-> "init"]

\* the handlers that change the system prompt or the history
DispatchBusy ==
    \/ Reset(FirstUser)
    \/ \E args \in SystemArgs : SystemSet(FirstUser, args)
    \/ \E args \in PersonaArgs : Persona(FirstUser, args)
    \/ \E m \in Messages, error \in ModelErrors : ChatFails(FirstUser, m, error)
    \/ \E m \in Messages, r \in Responses : ChatAnswers(FirstUser, m, r)

NextBusy == DispatchBusy \/ ResumeCap

SpecBusy == InitBusy /\ [][NextBusy]_vars

-----------------------------------------------------------------------------
(* One call of send_long_message, which keeps nothing from one call to the *)
(* next, on texts whose lines are empty, so long that two of them and      *)
(* their newlines fill a chunk to the limit, or as long as the limit.  A   *)
(* text of one line may start with an ampersand, which makes it four       *)
(* characters longer once convert_to_html has run.                         *)

MaxLines == 3
LineLengths == {0, 2047, 4096}
Leads == {"a", "&"}

\* a line of n characters
Line(lead, n) == [i \in 1..n |-> IF i = 1 THEN lead ELSE "a"]

\* '\n'.join of lines with the lengths lens
RECURSIVE JoinLines(_)
JoinLines(lens) ==
    IF Len(lens) = 1
    THEN Line("a", lens[1])
    ELSE Line("a", lens[1]) \o <<NL>> \o JoinLines(Tail(lens))

Texts ==
    {JoinLines(lens) : lens \in UNION {[1..n -> LineLengths] : n \in 1..MaxLines}}
    \cup {Line(lead, n) : lead \in Leads, n \in LineLengths}

\* send_long_message(update, text, use_html) up to its first await
SendLongMessage(text, use_html) ==
    /\ n_updates = 0
    /\ n_updates' = 1
    /\ handlers' = {Coroutine(1, Sending("send", FirstUser, SendState(text, use_html)))}
    /\ last' = [step |-> "dispatch", update |-> 1, kind |-> "send",
                user |-> FirstUser, args |-> <<text, use_html>>,
                before |-> user_sessions,
                reply |-> "chunk", request |-> NoRequest]
    /\ UNCHANGED <<user_sessions, turns_log>>

NextSend ==
    \/ \E text \in Texts, use_html \in BOOLEAN : SendLongMessage(text, use_html)
    \/ \E hd \in handlers, ok \in BOOLEAN : SendAttempted(hd, ok)

SpecSend == Init /\ [][NextSend]_vars

-----------------------------------------------------------------------------
(* One call of send_long_message in HTML mode on short texts made of the   *)
(* characters that convert_to_html and the fallback tiers give a meaning  *)
(* to: a fence, a star, angle brackets, an ampersand and a letter.         *)

MaxPieces == 5
Pieces == {TICKS3, <<"*">>, <<"a">>, <<"<">>, <<">">>, <<"&">>}

\* ''.join of the pieces
RECURSIVE JoinPieces(_)
JoinPieces(pieces) ==
    IF pieces = <<>> THEN <<>> ELSE Head(pieces) \o JoinPieces(Tail(pieces))

MarkupTexts ==
    {JoinPieces(pieces) : pieces \in UNION {[1..n -> Pieces] : n \in 1..MaxPieces}}

NextMarkup ==
    \/ \E text \in MarkupTexts : SendLongMessage(text, TRUE)
    \/ \E hd \in handlers, ok \in BOOLEAN : SendAttempted(hd, ok)

SpecMarkup == Init /\ [][NextMarkup]_vars

-----------------------------------------------------------------------------
(* Properties.  A state with last.step = "dispatch" is the state right     *)
(* after a handler has run up to its first await: every read and write of  *)
(* the session that the handler makes lies before that await.  last.before *)
(* is the session store just before the step.                              *)

\* the last n elements of seq, in their order
LastN(seq, n) ==
    IF Len(seq) <= n THEN seq ELSE [i \in 1..n |-> seq[Len(seq) - n + i]]

\* the session that the handler of the last dispatch worked on, as it was
\* before the handler ran (a new UserSession when the user had none)
SessionBefore ==
    IF last.user \in DOMAIN last.before
    THEN last.before[last.user]
    ELSE UserSession(Cardinality(DOMAIN last.before) + 1)

SessionAfter == user_sessions[last.user]

\* the handler of the last dispatch left the sessions of all other users alone
OthersUntouched ==
    \A v \in DOMAIN last.before \ {last.user} :
        v \in DOMAIN user_sessions /\ user_sessions[v] = last.before[v]

Dispatched(kind) == last.step = "dispatch" /\ last.kind = kind

\* C1: the history of a session never holds more than max_history (1000)
\* turns, and it always is the most recent max_history turns appended since
\* the last clear, in the order they were appended; so once more than
\* max_history turns have been appended, the oldest are the ones dropped.
C1_HistoryIsMostRecentTurns ==
    \A u \in DOMAIN user_sessions :
        /\ Len(user_sessions[u].history) <= 1000
        /\ user_sessions[u].history = LastN(turns_log[u], 1000)

\* more than max_history turns have been appended and chat has just appended
\* two more to a full history
C1_Witness ==
    /\ Dispatched("chat")
    /\ last.request.outcome = "answered"
    /\ Len(turns_log[last.user]) > 1000
    /\ Len(SessionBefore.history) = 1000
    /\ Len(SessionAfter.history) = 1000

\* /system with arguments, or /persona with the name of a persona
SystemPromptReplaced ==
    /\ last.step = "dispatch"
    /\ last.args # <<>>
    /\ \/ last.kind = "system"
       \/ last.kind = "persona" /\ Lower(last.args[1]) \in DOMAIN personas

\* C2: right after /system with arguments or /persona with a known name, the
\* history of the session is empty, whatever it held before, and
\* system_prompt is the arguments joined by spaces, or the text of the persona.
C2_NewPromptClearsHistory ==
    SystemPromptReplaced =>
        /\ SessionAfter.history = <<>>
        /\ SessionAfter.system_prompt =
               IF last.kind = "system"
               THEN Join(last.args)
               ELSE personas[Lower(last.args[1])]

\* /system with arguments on a session whose history holds turns
C2_Witness ==
    /\ SystemPromptReplaced
    /\ last.kind = "system"
    /\ SessionBefore.history # <<>>
    /\ SessionAfter.system_prompt = <<"Be", " ", "brief">>

\* /temperature with an argument
TemperatureGiven == Dispatched("temperature") /\ last.args # <<>>

\* C3: /temperature with an argument sets session.temperature to the value
\* of the argument exactly when the argument is a number in [0.0, 2.0], both
\* ends included; otherwise the reply is an error message and the session is
\* as it was, in every field.
C3_TemperatureSetExactlyInRange ==
    TemperatureGiven =>
        LET parsed == ParseFloat(last.args[1])
            accepted == /\ parsed.kind = "number"
                        /\ 0 <= parsed.value
                        /\ parsed.value <= 2000
        IN  /\ OthersUntouched
            /\ IF accepted
               THEN /\ SessionAfter = [SessionBefore EXCEPT !.temperature = parsed.value]
                    /\ last.reply = "Temperature set to"
               ELSE /\ SessionAfter = SessionBefore
                    /\ last.reply \in {"Invalid number",
                                       "Temperature must be between 0.0 and 2.0"}

\* /temperature 3.5 on a session with the default values: temperature stays 0.7
C3_Witness ==
    /\ TemperatureGiven
    /\ last.args[1] = <<"3", ".", "5">>
    /\ SessionBefore.temperature = 700
    /\ SessionAfter.temperature = 700
    /\ last.reply = "Temperature must be between 0.0 and 2.0"

\* C4: /reset empties the history of the user who sent it, leaves
\* system_prompt, temperature, model_name and max_history as they were, and
\* keeps the same session object in the store.
C4_ResetKeepsSettings ==
    Dispatched("reset") =>
        /\ SessionAfter.history = <<>>
        /\ SessionAfter = [SessionBefore EXCEPT !.history = <<>>]
        /\ SessionAfter.id = SessionBefore.id
        /\ OthersUntouched

\* /reset on a session whose system prompt the user has set
C4_Witness ==
    /\ Dispatched("reset")
    /\ last.user \in DOMAIN last.before
    /\ SessionBefore.system_prompt # DEFAULT_SYSTEM_PROMPT
    /\ SessionAfter.system_prompt = SessionBefore.system_prompt

\* the handlers that call get_session
UsesSession ==
    /\ last.step = "dispatch"
    /\ last.kind \in {"reset", "system", "temperature", "tokens", "persona",
                      "model", "chat"}

\* the handlers that call get_session and do nothing else to the session
OnlyReadsSession ==
    \/ Dispatched("tokens")
    \/ /\ last.step = "dispatch"
       /\ last.kind \in {"system", "temperature", "persona", "model"}
       /\ last.args = <<>>

ChatFailed == Dispatched("chat") /\ last.request.outcome \in ModelErrors

\* C6: when the model call of chat raises (in GenerativeModel, in
\* send_message or in response.text), the history is the history before the
\* message plus the one user turn, cut to max_history; no model turn is
\* recorded; system_prompt, temperature and model_name are as before; and
\* the reply of the except clause changes no session.
C6_FailedChatRecordsUserTurnOnly ==
    /\ ChatFailed =>
           /\ SessionAfter.history =
                  LastN(Append(SessionBefore.history,
                               [role |-> "user", parts |-> last.args]), 1000)
           /\ SessionAfter.history[Len(SessionAfter.history)].role = "user"
           /\ SessionAfter = [SessionBefore EXCEPT !.history = SessionAfter.history]
           /\ OthersUntouched
    /\ last.step = "resume" /\ last.kind = "chat" /\ last.call = "reply_text"
           /\ last.template = "Oops! Something went wrong" =>
           user_sessions = last.before

\* the model call raises on a message sent to a full history
C6_Witness ==
    /\ ChatFailed
    /\ Len(SessionBefore.history) = 1000
    /\ SessionBefore.history[1000].role = "model"
    /\ SessionAfter.history[999].role = "model"

\* C7: a failure of the model call of chat or of the image generation of
\* image_command is answered with an error message, and no exception leaves
\* either handler, whichever of the calls it awaits fail.
C7_NoExceptionLeavesHandler ==
    /\ ChatFailed => last.reply = "Oops! Something went wrong"
    /\ last.step = "resume" /\ last.kind \in {"chat", "image"} =>
           last.exit # "raised"

\* the calls of send_long_message in flight
Sends == {hd.send : hd \in {h \in handlers : h.pc = "send"}}

\* the chunk is one line and its newline, the line longer than the limit
OneLineOverLimit(chunk) ==
    /\ Len(chunk) - 1 > 4096
    /\ chunk[Len(chunk)] = NL
    /\ \A i \in 1..(Len(chunk) - 1) : chunk[i] # NL

\* C8: every chunk that send_long_message makes is at most 4096 characters
\* long, unless it holds one single line that is itself longer than 4096
\* characters; and a text of at most 4096 characters is one chunk.
C8_ChunksWithinLimit ==
    \A send \in Sends :
        /\ \A c \in 1..Len(send.chunks) :
               \/ Len(send.chunks[c]) <= 4096
               \/ OneLineOverLimit(send.chunks[c])
        /\ Len(send.text) <= 4096 => send.chunks = <<send.text>>

RECURSIVE Concat(_)
Concat(seqs) == IF seqs = <<>> THEN <<>> ELSE Head(seqs) \o Concat(Tail(seqs))

\* C9: for a text longer than 4096 characters, the chunks put end to end are
\* the text and one newline after it, and every chunk ends where a line
\* ends: each line is in one chunk, whole, once, in its place.
C9_ChunksReproduceText ==
    \A send \in Sends :
        Len(send.text) > 4096 =>
            /\ Concat(send.chunks) = send.text \o <<NL>>
            /\ \A c \in 1..Len(send.chunks) :
                   /\ send.chunks[c] # <<>>
                   /\ send.chunks[c][Len(send.chunks[c])] = NL

\* a text of several lines longer than the limit, split into several chunks,
\* one of them holding more than one line
C9_Witness ==
    \E send \in Sends :
        /\ Len(send.text) > 4096
        /\ Len(send.chunks) >= 2
        /\ \E c \in 1..Len(send.chunks) :
               \E i \in 1..(Len(send.chunks[c]) - 1) : send.chunks[c][i] = NL

\* attempt i of the log is the first one for its chunk
FirstForChunk(log, i) == i = 1 \/ log[i - 1].chunk # log[i].chunk

\* the attempts of log, made by a call with the parse mode send_mode, follow
\* the order of the tiers
TiersInOrder(log, send_mode) ==
    \A i \in 1..Len(log) :
        LET first == FirstForChunk(log, i)
            failed(tier) == ~first /\ log[i - 1].tier = tier /\ ~log[i - 1].ok
        IN  /\ log[i].tier \in {"a", "b", "c"}
            /\ log[i].tier = "a" <=> first /\ send_mode # "None"
            /\ log[i].tier = "b" <=> (first /\ send_mode = "None") \/ failed("a")
            /\ log[i].tier = "c" <=> failed("b")
            /\ first => log[i].chunk = IF i = 1 THEN 1 ELSE log[i - 1].chunk + 1
            /\ first /\ i > 1 => log[i - 1].ok \/ log[i - 1].tier = "c"
            /\ \A j \in 1..(i - 1) : log[j].chunk = log[i].chunk => ~log[j].ok

\* the attempt that the call is suspended in, as an entry of the log
Pending(send) == [chunk |-> send.k, tier |-> send.tier, ok |-> TRUE]

\* C10: for each chunk the tiers are tried in the order (a), (b), (c): (b)
\* exactly when (a) was skipped for want of a parse mode or has failed, (c)
\* exactly when (b) has failed, and nothing more for a chunk once an attempt
\* has succeeded, so that no chunk is delivered twice.
C10_TiersInOrder ==
    /\ \A send \in Sends :
           TiersInOrder(Append(send.attempts, Pending(send)), send.parse_mode)
    /\ last.step = "resume" /\ last.attempts # <<>> =>
           /\ TiersInOrder(last.attempts, last.send_mode)
           /\ last.exit = "returned" =>
                  LET final == last.attempts[Len(last.attempts)]
                  IN  final.ok \/ final.tier = "c"

\* a call that went through all three tiers for its first chunk and sent
\* the second chunk at once
C10_Witness ==
    /\ last.step = "resume"
    /\ last.exit = "returned"
    /\ Len(last.attempts) = 4
    /\ last.attempts[1] = [chunk |-> 1, tier |-> "a", ok |-> FALSE]
    /\ last.attempts[2] = [chunk |-> 1, tier |-> "b", ok |-> FALSE]
    /\ last.attempts[3].tier = "c"
    /\ last.attempts[4] = [chunk |-> 2, tier |-> "a", ok |-> TRUE]

-----------------------------------------------------------------------------
(* The fallback text of tier (b) (lines 145-150).                           *)

\* the characters of text
Chars(text) == {text[i] : i \in 1..Len(text)}

\* the attempt of tier (b) that completed last came after tier (a) failed
\* for the chunk (in HTML mode every chunk starts with tier (a))
TierBAfterTierA ==
    /\ last.step = "resume"
    /\ last.kind = "send"
    /\ last.tier = "b"
    /\ last.send_mode = "HTML"

\* C11: when tier (a) has failed for a chunk, the text that tier (b) sends
\* for it holds no '<', no '*' and no backtick.
C11_TierBTextIsPlain ==
    TierBAfterTierA => Chars(last.body) \cap {"<", "*", BACKTICK} = {}

-----------------------------------------------------------------------------
(* A chunk that no tier could send (lines 152-158).                         *)

\* the attempts of log made for chunk c
AttemptsFor(log, c) == {i \in 1..Len(log) : log[i].chunk = c}

\* the attempts of log go through the chunks 1..n in order, none left out,
\* with one to three attempts for each
CoversChunks(log, n) ==
    /\ \A c \in 1..n : Cardinality(AttemptsFor(log, c)) \in 1..3
    /\ \A i \in 1..Len(log) : log[i].chunk \in 1..n
    /\ \A i \in 2..Len(log) : log[i].chunk \in {log[i - 1].chunk, log[i - 1].chunk + 1}

\* C12: a chunk whose three tiers all fail is dropped without raising: the
\* chunks after it are still attempted, in order; no chunk gets more than
\* three attempts; and for every combination of failures the call returns
\* normally, after it has attempted every chunk.
C12_DroppedChunkDoesNotStopTheCall ==
    /\ \A send \in Sends :
           /\ send.k \in 1..Len(send.chunks)
           /\ CoversChunks(Append(send.attempts, Pending(send)), send.k)
           /\ Len(send.attempts) < 3 * Len(send.chunks)
    /\ last.step = "resume" /\ last.attempts # <<>> =>
           /\ last.exit \in {"none", "returned"}
           /\ last.exit = "returned" => CoversChunks(last.attempts, last.n_chunks)
           /\ last.exit = "none" =>
                  \E hd \in handlers :
                      /\ hd.update = last.update
                      /\ hd.pc = "send"
                      /\ hd.send.attempts = last.attempts
                      /\ LET failed == last.tier = "c" /\ ~last.ok
                         IN  failed => hd.send.k = last.attempts[Len(last.attempts)].chunk + 1

\* a call on a text of several chunks returns after every tier has failed
\* for every chunk
C12_Witness ==
    /\ last.step = "resume"
    /\ last.exit = "returned"
    /\ last.n_chunks >= 2
    /\ Len(last.attempts) = 3 * last.n_chunks
    /\ \A i \in 1..Len(last.attempts) : ~last.attempts[i].ok

-----------------------------------------------------------------------------
(* Isolation of the users' sessions (lines 177-180: one UserSession per    *)
(* user id, and every handler works on get_session(its own user id)).      *)

-----------------------------------------------------------------------------
(* /persona and /model with a key (lines 316-325, 343-348).                 *)

\* the last dispatch was the command kind with a key outside of keys
UnknownKey(kind, keys) ==
    /\ Dispatched(kind)
    /\ last.args # <<>>
    /\ Lower(last.args[1]) \notin keys

\* C14: /persona or /model with a key outside the enumerated set replies
\* with a corrective message and leaves the whole session as it was
\* (system_prompt, history, temperature, model_name); /model with a valid
\* key changes model_name and nothing else, so the history is kept.
C14_UnknownKeyChangesNothing ==
    /\ UnknownKey("persona", DOMAIN personas) =>
           /\ SessionAfter = SessionBefore
           /\ last.reply = "Unknown persona"
           /\ OthersUntouched
    /\ UnknownKey("model", DOMAIN models) =>
           /\ SessionAfter = SessionBefore
           /\ last.reply = "Unknown model"
           /\ OthersUntouched
    /\ Dispatched("model") /\ last.args # <<>>
           /\ Lower(last.args[1]) \in DOMAIN models =>
           /\ SessionAfter =
                  [SessionBefore EXCEPT !.model_name = models[Lower(last.args[1])]]
           /\ last.reply = "Model switched to"
           /\ OthersUntouched

\* /persona pirate for a user with turns in the history
C14_Witness ==
    /\ UnknownKey("persona", DOMAIN personas)
    /\ SessionBefore.history # <<>>
    /\ SessionAfter.history = SessionBefore.history

-----------------------------------------------------------------------------
(* The coding persona followed by one exchange (lines 316-319, 402-417).    *)

\* the last dispatch was a chat that the model answered
ChatAnswered == Dispatched("chat") /\ last.request.outcome = "answered"

\* the session is as /persona coding leaves it: the coding prompt, no history
CodingPersonaSelected(session) ==
    /\ session.system_prompt = personas.coding
    /\ session.history = <<>>

\* C15: after the coding persona is selected and one chat message is then
\* answered by the model, system_prompt is the coding persona text and the
\* history holds exactly two turns, the user's message and then the model's
\* answer; the request to the model carried the coding prompt.
C15_CodingPersonaThenOneExchange ==
    /\ Dispatched("persona") /\ last.args # <<>>
           /\ Lower(last.args[1]) = "coding" =>
           CodingPersonaSelected(SessionAfter)
    /\ ChatAnswered /\ CodingPersonaSelected(SessionBefore) =>
           /\ SessionAfter.system_prompt = personas.coding
           /\ Len(SessionAfter.history) = 2
           /\ SessionAfter.history[1] = [role |-> "user", parts |-> last.args]
           /\ SessionAfter.history[2].role = "model"
           /\ SessionAfter.history[2].parts \in {<<r>> : r \in Responses}
           /\ last.request.system_instruction = personas.coding

\* a message is answered for a user who selected the coding persona, by
\* /persona Coding, in the update before
C15_Witness ==
    /\ ChatAnswered
    /\ last.update = 2
    /\ CodingPersonaSelected(SessionBefore)
    /\ Len(SessionAfter.history) = 2

-----------------------------------------------------------------------------
(* convert_to_html (lines 43-94), on the text that send_long_message has    *)
(* just converted: last.args[1] is the input, the text of the suspended     *)
(* call is the output.                                                      *)

\* send_long_message has just been called in HTML mode
Converted ==
    /\ last.step = "dispatch"
    /\ last.kind = "send"
    /\ last.args[2]

\* the tags that the replacements of lines 55-69 emit
EmittedTags ==
    {B_OPEN, B_CLOSE, I_OPEN, I_CLOSE, CODE_OPEN, CODE_CLOSE, PRE_OPEN, PRE_CLOSE}

\* C16: in the output of convert_to_html every '<' is the first character
\* of one of the tags that the converter emits (b, i, code, pre, opening or
\* closing): every other '<' has been escaped.
C16_EveryAngleBracketIsAnEmittedTag ==
    Converted =>
        \A send \in Sends :
            \A i \in 1..Len(send.text) :
                send.text[i] = "<" => \E tag \in EmittedTags : IsAt(send.text, i, tag)

\* text is one fenced block without a language tag and without a newline,
\* whose content is made of stars and letters and starts with a star
StarFence(text) ==
    /\ Len(text) >= 7
    /\ IsAt(text, 1, TICKS3)
    /\ IsAt(text, Len(text) - 2, TICKS3)
    /\ text[4] = "*"
    /\ \A i \in 4..(Len(text) - 3) : text[i] \in {"*", "a"}

\* C17: the content of a fenced code block comes out between <pre> and
\* </pre> as it went in: the later steps do not rewrite the markup
\* characters inside the block.
C17_FenceContentVerbatim ==
    Converted /\ StarFence(last.args[1]) =>
        \A send \in Sends :
            send.text = Wrap(PRE_OPEN,
                             SubSeq(last.args[1], 4, Len(last.args[1]) - 3),
                             PRE_CLOSE)

-----------------------------------------------------------------------------
(* A change of the system prompt and the chats after it (lines 255-257,     *)
(* 318-319, 402-414), with an earlier reply still being delivered.          *)

\* the number of turns that the chat of the last dispatch has appended
TurnsAppended == IF last.request.outcome = "answered" THEN 2 ELSE 1

\* C18: a change of the system prompt starts a fresh context, whatever is
\* in flight.  /system and /persona leave the history empty; from then on
\* the prompt of the session changes only by another /system or /persona,
\* and no completion of an awaited call (such as a tier of the reply that
\* an earlier chat is delivering) changes any session; and every request
\* that chat builds carries the prompt of the session and, as history, the
\* turns recorded since the history was last cleared, less the message at
\* hand, so no turn from before the change.
C18_PromptChangeStartsFreshContext ==
    /\ SystemPromptReplaced =>
           /\ SessionAfter.history = <<>>
           /\ turns_log[last.user] = <<>>
    /\ last.step = "resume" => user_sessions = last.before
    /\ last.step = "dispatch" /\ ~SystemPromptReplaced =>
           SessionAfter.system_prompt = SessionBefore.system_prompt
    /\ Dispatched("chat") =>
           /\ last.request.system_instruction = SessionAfter.system_prompt
           /\ last.request.outcome # "construct_error" =>
                  last.request.history =
                      SubSeq(turns_log[last.user], 1,
                             Len(turns_log[last.user]) - TurnsAppended)

\* a message arrives after /system Be brief has completed, while the reply
\* to the first message is still being delivered: the request carries the
\* new prompt and an empty history
C18_Witness ==
    /\ Dispatched("chat")
    /\ last.update = 2
    /\ \E hd \in handlers : hd.update = 0 /\ hd.kind = "chat" /\ hd.pc = "send"
    /\ last.before[last.user].system_prompt = <<"Be", " ", "brief">>
    /\ last.request.system_instruction = <<"Be", " ", "brief">>
    /\ last.request.history = <<>>
    /\ last.request.outcome = "answered"

-----------------------------------------------------------------------------
(* The writes of chat and its first await (lines 402-420).                  *)

\* the user turn of the chat dispatched last
UserTurn == [role |-> "user", parts |-> last.args]

\* C19: chat makes all its writes to the session before it first suspends.
\* Right after an answered chat has run to its first await the history ends
\* with the user turn of the message followed by the model turn, and below
\* them it is the history from before; the history sent to the model is the
\* session history as it is once the user turn is appended, without that
\* turn; completing an awaited call changes no session; so in every state
\* every model turn directly follows a user turn.
C19_ChatWritesBeforeFirstAwait ==
    /\ ChatAnswered =>
           LET history == SessionAfter.history
               n == Len(history)
           IN  /\ n = Len(SessionBefore.history) + 2
               /\ SubSeq(history, 1, n - 2) = SessionBefore.history
               /\ history[n - 1] = UserTurn
               /\ history[n].role = "model"
    /\ Dispatched("chat") /\ last.request.outcome # "construct_error" =>
           Append(last.request.history, UserTurn) =
               LastN(Append(SessionBefore.history, UserTurn), max_history)
    /\ last.step = "resume" /\ last.kind = "chat" => user_sessions = last.before
    /\ \A u \in DOMAIN user_sessions :
           \A i \in 1..Len(user_sessions[u].history) :
               user_sessions[u].history[i].role = "model" =>
                   i > 1 /\ user_sessions[u].history[i - 1].role = "user"

\* a second message of the user is answered while the reply to the first
\* is still being delivered: the history holds the two exchanges, one
\* after the other
C19_Witness ==
    /\ ChatAnswered
    /\ \E hd \in handlers :
           hd.update = 0 /\ hd.user = last.user /\ hd.kind = "chat" /\ hd.pc = "send"
    /\ Len(SessionAfter.history) = 4
    /\ last.request.history = FirstExchange(1).history

-----------------------------------------------------------------------------
(* The settings of every session (lines 161-167, 275-283, 331-348).         *)

\* the model names of the dict models (lines 331-334)
ModelNames == {models[key] : key \in DOMAIN models}

\* C20: in every reachable state every session of the store has a
\* temperature within [0.0, 2.0] and one of the two model names.
C20_SettingsWithinDomain ==
    \A u \in DOMAIN user_sessions :
        /\ user_sessions[u].temperature \in 0..2000
        /\ user_sessions[u].model_name \in {"gemini-2.5-flash", "gemini-2.5-pro"}
        /\ user_sessions[u].model_name \in ModelNames

\* /model gpt is refused for a user who has set the temperature to 2.0
C20_Witness ==
    /\ UnknownKey("model", DOMAIN models)
    /\ SessionAfter.temperature = 2000
    /\ SessionAfter.model_name = DEFAULT_MODEL

====
